---- MODULE Spec2Model ----
(***************************************************************************)
(* flask/templating.py: the bridge to Jinja2.                              *)
(*                                                                         *)
(* The application owns an optional template loader, an ordered list of    *)
(* blueprints (each with an optional loader) and its configuration.  The   *)
(* DispatchingJinjaLoader resolves a template name against them; the       *)
(* render functions assemble a context and bracket the render with two     *)
(* signals.                                                                *)
(*                                                                         *)
(* A template folder is modelled by the set of template names it holds.    *)
(* What a loader returns for a name is (source, filename, uptodate); the   *)
(* filename lies in the loader's own folder, so a returned source is       *)
(* written as the pair of folder and name.  Folder 0 is the application's, *)
(* folder i the i-th registered blueprint's.                               *)
(***************************************************************************)
EXTENDS Integers, Sequences, FiniteSets, TLC

\* ------------------------------------------------------------- bounds
MaxBlueprints == 2
MaxNames == 2
MaxRenderBlueprints == 1

\* Template names that callers ask for and folders may hold.
Names == {"x", "y"}

\* -------------------------------------------------------------- state
VARIABLES
    jinja_loader,            \* app.jinja_loader
    blueprints,              \* app.iter_blueprints(), in registration order
    config,                  \* app.config
    app_context_top,         \* _app_context_stack.top
    request_context_top,     \* _request_context_stack.top
    last,                    \* the last loader call and what it produced
    rendered                 \* the last render call and what it produced

vars == <<jinja_loader, blueprints, config, app_context_top,
          request_context_top, last, rendered>>

appvars == <<jinja_loader, blueprints, config>>

\* The application object as the loader sees it through self.app.
App == [jinja_loader |-> jinja_loader, blueprints |-> blueprints,
        config |-> config]

\* ------------------------------------------------------------ loaders
\* jinja_loader is None
NoLoader == [present |-> FALSE, folder |-> -1, templates |-> {}]

FolderLoader(folder, templates) ==
    [present |-> TRUE, folder |-> folder, templates |-> templates]

LoaderChoices(folder) ==
    {NoLoader} \cup {FolderLoader(folder, t) : t \in SUBSET Names}

Source(folder, template) ==
    [kind |-> "source", folder |-> folder, name |-> template]

TemplateNotFound(template) ==
    [kind |-> "TemplateNotFound", folder |-> -1, name |-> template]

\* Python's None as the rv of a failed attempt
NoneRv == [kind |-> "None", folder |-> -1, name |-> ""]

\* loader.get_source(environment, template) of one underlying loader
LoaderGetSource(loader, template) ==
    IF template \in loader.templates
    THEN Source(loader.folder, template)
    ELSE TemplateNotFound(template)

AppObj == [type |-> "app", index |-> 0]

BlueprintObj(i) == [type |-> "blueprint", index |-> i]

\* The blueprint loaders yielded by the for loop of _iter_loaders from
\* blueprint i on.
RECURSIVE BlueprintLoaders(_, _)
BlueprintLoaders(a, i) ==
    IF i > Len(a.blueprints) THEN <<>>
    ELSE LET loader == a.blueprints[i].jinja_loader
         IN  (IF loader.present
              THEN <<[srcobj |-> BlueprintObj(i), loader |-> loader]>>
              ELSE <<>>) \o BlueprintLoaders(a, i + 1)

\* Mutant: blueprints are yielded before the application.
IterLoadersBlueprintsFirst(a) ==
    BlueprintLoaders(a, 1) \o
    (IF a.jinja_loader.present
     THEN <<[srcobj |-> AppObj, loader |-> a.jinja_loader]>>
     ELSE <<>>)

\* Mutant: the candidate list is taken when the loader is constructed,
\* before any blueprint is registered.
IterLoadersAtConstruction(a) ==
    IF a.jinja_loader.present
    THEN <<[srcobj |-> AppObj, loader |-> a.jinja_loader]>>
    ELSE <<>>

\* DispatchingJinjaLoader._iter_loaders
_iter_loaders(a) ==
    (IF a.jinja_loader.present
     THEN <<[srcobj |-> AppObj, loader |-> a.jinja_loader]>>
     ELSE <<>>) \o BlueprintLoaders(a, 1)

\* Events of one lookup: the calls made to the underlying loaders and to
\* the diagnostic reporter, in the order they are made.
CallEvent(loader) ==
    [ev |-> "get_source", folder |-> loader.folder, attempts |-> <<>>]

ExplainEvent(attempts) ==
    [ev |-> "explain_template_loading_attempts", folder |-> -1,
     attempts |-> attempts]

Attempt(loader, srcobj, rv) ==
    [loader |-> loader, srcobj |-> srcobj, rv |-> rv]

\* Mutant: the first failure ends the scan.
RECURSIVE FastScanNoContinue(_, _, _, _)
FastScanNoContinue(cands, template, i, trace) ==
    IF i > Len(cands)
    THEN [rv |-> TemplateNotFound(template), trace |-> trace]
    ELSE [rv |-> LoaderGetSource(cands[i].loader, template),
          trace |-> Append(trace, CallEvent(cands[i].loader))]

\* The loop of _get_source_fast from candidate i on.
RECURSIVE FastScan(_, _, _, _)
FastScan(cands, template, i, trace) ==
    IF i > Len(cands)
    THEN [rv |-> TemplateNotFound(template), trace |-> trace]
    ELSE LET rv == LoaderGetSource(cands[i].loader, template)
             t2 == Append(trace, CallEvent(cands[i].loader))
         IN  IF rv.kind = "source"
             THEN [rv |-> rv, trace |-> t2]
             ELSE FastScan(cands, template, i + 1, t2)

\* DispatchingJinjaLoader._get_source_fast
_get_source_fast(a, template) ==
    FastScan(_iter_loaders(a), template, 1, <<>>)

\* Mutant: every success overwrites trv, so the last one is returned.
RECURSIVE ExplainedScanLastWins(_, _, _, _, _, _)
ExplainedScanLastWins(cands, template, i, attempts, trv, trace) ==
    IF i > Len(cands)
    THEN [attempts |-> attempts, trv |-> trv, trace |-> trace]
    ELSE LET got == LoaderGetSource(cands[i].loader, template)
             rv == IF got.kind = "source" THEN got ELSE NoneRv
             trv2 == IF got.kind = "source" THEN got ELSE trv
         IN  ExplainedScanLastWins(cands, template, i + 1,
                 Append(attempts,
                        Attempt(cands[i].loader, cands[i].srcobj, rv)),
                 trv2, Append(trace, CallEvent(cands[i].loader)))

\* Mutant: the scan stops at the first success.
RECURSIVE ExplainedScanShortCircuit(_, _, _, _, _, _)
ExplainedScanShortCircuit(cands, template, i, attempts, trv, trace) ==
    IF i > Len(cands) \/ trv # NoneRv
    THEN [attempts |-> attempts, trv |-> trv, trace |-> trace]
    ELSE LET got == LoaderGetSource(cands[i].loader, template)
             rv == IF got.kind = "source" THEN got ELSE NoneRv
         IN  ExplainedScanShortCircuit(cands, template, i + 1,
                 Append(attempts,
                        Attempt(cands[i].loader, cands[i].srcobj, rv)),
                 rv, Append(trace, CallEvent(cands[i].loader)))

\* The loop of _get_source_explained from candidate i on.
RECURSIVE ExplainedScan(_, _, _, _, _, _)
ExplainedScan(cands, template, i, attempts, trv, trace) ==
    IF i > Len(cands)
    THEN [attempts |-> attempts, trv |-> trv, trace |-> trace]
    ELSE LET got == LoaderGetSource(cands[i].loader, template)
             rv == IF got.kind = "source" THEN got ELSE NoneRv
             trv2 == IF got.kind = "source" /\ trv = NoneRv
                     THEN got ELSE trv
         IN  ExplainedScan(cands, template, i + 1,
                 Append(attempts,
                        Attempt(cands[i].loader, cands[i].srcobj, rv)),
                 trv2, Append(trace, CallEvent(cands[i].loader)))

\* DispatchingJinjaLoader._get_source_explained
_get_source_explained(a, template) ==
    LET s == ExplainedScan(_iter_loaders(a), template, 1, <<>>, NoneRv, <<>>)
        trace == Append(s.trace, ExplainEvent(s.attempts))
    IN  IF s.trv # NoneRv
        THEN [rv |-> s.trv, trace |-> trace]
        ELSE [rv |-> TemplateNotFound(template), trace |-> trace]

\* DispatchingJinjaLoader.get_source
get_source(a, template) ==
    IF a.config.EXPLAIN_TEMPLATE_LOADING
    THEN _get_source_explained(a, template)
    ELSE _get_source_fast(a, template)


\* ------------------------------------------------------ deck_templates
Range(s) == {s[i] : i \in 1..Len(s)}

\* An enumeration of a set: what iterating it yields.
SetToSeq(S) ==
    CHOOSE s \in [1..Cardinality(S) -> S] : Range(s) = S

\* loader.deck_templates() of one underlying loader
LoaderDeckTemplates(loader) == SetToSeq(loader.templates)

\* Mutant: result is a list, and add appends.
ListAdd(result, template) == Append(result, template)

\* result.add(template): result is a Python set, kept here as the
\* sequence of its distinct elements.
SetAdd(result, template) ==
    IF template \in Range(result) THEN result ELSE Append(result, template)

\* result.update(templates), and the inner for loop that adds each one
RECURSIVE SetUpdate(_, _, _)
SetUpdate(result, templates, i) ==
    IF i > Len(templates) THEN result
    ELSE SetUpdate(SetAdd(result, templates[i]), templates, i + 1)

\* The for loop of deck_templates over the blueprints from i on.
RECURSIVE DeckBlueprints(_, _, _)
DeckBlueprints(a, i, result) ==
    IF i > Len(a.blueprints) THEN result
    ELSE LET loader == a.blueprints[i].jinja_loader
         IN  DeckBlueprints(a, i + 1,
                 IF loader.present
                 THEN SetUpdate(result, LoaderDeckTemplates(loader), 1)
                 ELSE result)

\* deck(result): a collection holding the elements of result, in an
\* order that is not specified.
deck(result) ==
    {[i \in 1..Len(result) |-> result[p[i]]] :
        p \in Permutations(1..Len(result))}

\* DispatchingJinjaLoader.deck_templates, up to the call of deck
deck_templates(a) ==
    LET loader == a.jinja_loader
        result == IF loader.present
                  THEN SetUpdate(<<>>, LoaderDeckTemplates(loader), 1)
                  ELSE <<>>
    IN  DeckBlueprints(a, 1, result)

\* ------------------------------------------------------------ contexts
\* Names of template variables; "title" stands for any variable only the
\* caller supplies.
Keys == {"g", "request", "session", "title"}

Absent == "absent"

EmptyContext == [k \in Keys |-> Absent]

\* _app_context_stack.top / _request_context_stack.top is None
NoContext == [present |-> FALSE]

AppContext == [present |-> TRUE, app |-> "app", g |-> "the_g"]

RequestContext ==
    [present |-> TRUE, request |-> "the_request", session |-> "the_session"]

\* The keyword variables a caller may pass: any of "request" and "title",
\* with a value of the caller's own.
CallerContexts ==
    {c \in [Keys -> {Absent, "callers_value"}] :
        c["g"] = Absent /\ c["session"] = Absent}

\* Mutant: request and session are injected whenever an application
\* context is active.
ContextProcessorAppOnly(appcontext, reqcontext) ==
    [k \in Keys |->
        IF appcontext.present /\ k = "g" THEN appcontext.g
        ELSE IF appcontext.present /\ k = "request" THEN "the_request"
        ELSE IF appcontext.present /\ k = "session" THEN "the_session"
        ELSE Absent]

\* _default_template_context_processor, reading the two stack tops
_default_template_context_processor(appcontext, reqcontext) ==
    [k \in Keys |->
        IF appcontext.present /\ k = "g" THEN appcontext.g
        ELSE IF reqcontext.present /\ k = "request" THEN reqcontext.request
        ELSE IF reqcontext.present /\ k = "session" THEN reqcontext.session
        ELSE Absent]

\* app.update_template_context(context): the context processors fill in
\* what the given context does not hold; what it holds is kept.
update_template_context(context) ==
    LET injected == _default_template_context_processor(app_context_top,
                                                        request_context_top)
    IN  [k \in Keys |-> IF context[k] # Absent THEN context[k]
                         ELSE injected[k]]

\* The template variables held by the object that the name `context` is
\* bound to after `context = _app_context_stack.top`: the application
\* context, which holds none of the caller's keyword variables.
TopAsContext(top) == EmptyContext

\* ------------------------------------------------------------- render
\* What template_name_or_deck may be: one name, or a list of names.
RECURSIVE SeqsUpTo(_, _)
SeqsUpTo(S, n) ==
    IF n = 0 THEN {<<>>}
    ELSE SeqsUpTo(S, n - 1) \cup [1..n -> S]

TemplateArgs ==
    {[is_deck |-> FALSE, names |-> <<n>>] : n \in Names}
    \cup {[is_deck |-> TRUE, names |-> ns] : ns \in SeqsUpTo(Names, MaxNames)}

\* jinja_env.get_template(name), through the environment's loader: the
\* DispatchingJinjaLoader that Environment.__init__ installs.
get_template(a, name) == get_source(a, name).rv

\* jinja_env.select_template(names): the first name that loads.
RECURSIVE select_template(_, _, _)
select_template(a, names, i) ==
    IF i > Len(names)
    THEN TemplateNotFound(IF names = <<>> THEN "" ELSE names[Len(names)])
    ELSE LET t == get_template(a, names[i])
         IN  IF t.kind = "source" THEN t
             ELSE select_template(a, names, i + 1)

\* jinja_env.get_or_select_template(template_name_or_deck)
get_or_select_template(a, arg) ==
    IF arg.is_deck THEN select_template(a, arg.names, 1)
    ELSE get_template(a, arg.names[1])

\* jinja_env.from_string(source)
from_string(source) == [kind |-> "source", folder |-> -1, name |-> source]

\* How the observers of the two signals and the template's own render
\* behave in one call: each may raise.
Behaviours ==
    [before_raises : BOOLEAN, render_raises : BOOLEAN, after_raises : BOOLEAN]

Event(what, sender, template, context) ==
    [what |-> what, sender |-> sender, template |-> template,
     context |-> context]

Returned(template, context, events) ==
    [outcome |-> "returned", error |-> "", template |-> template,
     context |-> context, events |-> events]

Raised(error, template, context, events) ==
    [outcome |-> "raised", error |-> error, template |-> template,
     context |-> context, events |-> events]

\* Mutant: template_rendered is sent before the template is rendered.
RenderSignalsFirst(template, context, app, b) ==
    LET e1 == Event("before_render_template", app, template, context)
        e2 == Event("template_rendered", app, template, context)
        e3 == Event("render", "", template, context)
    IN  IF b.before_raises
        THEN Raised("before_render_template", template, context, <<e1>>)
        ELSE IF b.after_raises
        THEN Raised("template_rendered", template, context, <<e1, e2>>)
        ELSE IF b.render_raises
        THEN Raised("render", template, context, <<e1, e2, e3>>)
        ELSE Returned(template, context, <<e1, e2, e3>>)

\* _render(template, context, app)
_render(template, context, app, b) ==
    LET e1 == Event("before_render_template", app, template, context)
        e2 == Event("render", "", template, context)
        e3 == Event("template_rendered", app, template, context)
    IN  IF b.before_raises
        THEN Raised("before_render_template", template, context, <<e1>>)
        ELSE IF b.render_raises
        THEN Raised("render", template, context, <<e1, e2>>)
        ELSE IF b.after_raises
        THEN Raised("template_rendered", template, context, <<e1, e2, e3>>)
        ELSE Returned(template, context, <<e1, e2, e3>>)

\* Mutant: only the first name of a list is tried.
RenderTemplateFirstNameOnly(a, arg, kwargs, b) ==
    LET context == TopAsContext(app_context_top)
        updated == update_template_context(context)
        template == IF arg.names = <<>> THEN TemplateNotFound("")
                    ELSE get_template(a, arg.names[1])
    IN  IF template.kind # "source"
        THEN Raised("TemplateNotFound", template, updated, <<>>)
        ELSE _render(template, updated, app_context_top.app, b)

\* render_template(template_name_or_deck, **context).  The first statement
\* rebinds the name `context` to the application context, so the keyword
\* variables are not read again.
render_template(a, arg, kwargs, b) ==
    LET context == TopAsContext(app_context_top)
        updated == update_template_context(context)
        template == get_or_select_template(a, arg)
    IN  IF template.kind # "source"
        THEN Raised("TemplateNotFound", template, updated, <<>>)
        ELSE _render(template, updated, app_context_top.app, b)

\* render_template_string(source, **context), with the same rebinding
render_template_string(a, source, kwargs, b) ==
    LET context == TopAsContext(app_context_top)
        updated == update_template_context(context)
    IN  _render(from_string(source), updated, app_context_top.app, b)

\* ---------------------------------------------------- the render callers
AllBlueprints(n) ==
    UNION {{[name |-> i, jinja_loader |-> l] : l \in LoaderChoices(i)} :
              i \in 1..n}

BlueprintLists(n) ==
    UNION {{bs \in [1..k -> AllBlueprints(k)] :
               \A i \in 1..k : bs[i].name = i} : k \in 0..n}

NoRenderCall ==
    [op |-> "none", arg |-> [is_deck |-> FALSE, names |-> <<>>],
     kwargs |-> EmptyContext,
     behaviour |-> [before_raises |-> FALSE, render_raises |-> FALSE,
                    after_raises |-> FALSE],
     result |-> Raised("", NoneRv, EmptyContext, <<>>)]

\* ------------------------------------------------- the loader's callers
NoCall ==
    [op |-> "none", serial |-> 0, template |-> "", app |-> App,
     before |-> -1, rv |-> NoneRv, trace |-> <<>>, listing |-> <<>>]

\* The application is created with its template folder and configuration;
\* blueprints are registered afterwards.
Init ==
    /\ jinja_loader \in LoaderChoices(0)
    /\ blueprints = <<>>
    /\ config \in [EXPLAIN_TEMPLATE_LOADING : BOOLEAN]
    /\ app_context_top = [present |-> FALSE]
    /\ request_context_top = [present |-> FALSE]
    /\ last = [NoCall EXCEPT !.app = [jinja_loader |-> jinja_loader,
                                      blueprints |-> <<>>,
                                      config |-> config]]
    /\ rendered = NoRenderCall

\* app.register_blueprint(blueprint): appended to what iter_blueprints
\* yields.
RegisterBlueprint ==
    /\ Len(blueprints) < MaxBlueprints
    /\ \E loader \in LoaderChoices(Len(blueprints) + 1) :
          blueprints' = Append(blueprints,
              [name |-> Len(blueprints) + 1, jinja_loader |-> loader])
    /\ UNCHANGED <<jinja_loader, config, app_context_top,
                   request_context_top, last, rendered>>

\* app.config['EXPLAIN_TEMPLATE_LOADING'] = value
SetExplain ==
    /\ \E value \in BOOLEAN :
          /\ value # config.EXPLAIN_TEMPLATE_LOADING
          /\ config' = [config EXCEPT !.EXPLAIN_TEMPLATE_LOADING = value]
    /\ UNCHANGED <<jinja_loader, blueprints, app_context_top,
                   request_context_top, last, rendered>>

\* A call of DispatchingJinjaLoader.get_source(environment, template)
GetSource ==
    /\ \E template \in Names :
          LET r == get_source(App, template)
          IN  last' = [op |-> "get_source",
                       serial |-> 1 - last.serial,
                       template |-> template,
                       app |-> App,
                       before |-> IF last.op = "get_source"
                                  THEN Len(last.app.blueprints) ELSE -1,
                       rv |-> r.rv,
                       trace |-> r.trace,
                       listing |-> <<>>]
    /\ UNCHANGED <<jinja_loader, blueprints, config, app_context_top,
                   request_context_top, rendered>>

\* A call of DispatchingJinjaLoader.deck_templates()
DeckTemplates ==
    /\ \E listing \in deck(deck_templates(App)) :
          last' = [op |-> "deck_templates",
                   serial |-> 1 - last.serial,
                   template |-> "",
                   app |-> App,
                   before |-> -1,
                   rv |-> NoneRv,
                   trace |-> <<>>,
                   listing |-> listing]
    /\ UNCHANGED <<jinja_loader, blueprints, config, app_context_top,
                   request_context_top, rendered>>

Next ==
    \/ RegisterBlueprint
    \/ SetExplain
    \/ GetSource
    \/ DeckTemplates

Spec == Init /\ [][Next]_vars


\* ---------------------------------------------------- the render calls
\* An application with its blueprints registered, serving calls.
RenderInit ==
    /\ jinja_loader \in LoaderChoices(0)
    /\ blueprints \in BlueprintLists(MaxRenderBlueprints)
    /\ config \in [EXPLAIN_TEMPLATE_LOADING : BOOLEAN]
    /\ app_context_top = NoContext
    /\ request_context_top = NoContext
    /\ last = [NoCall EXCEPT !.app = [jinja_loader |-> jinja_loader,
                                      blueprints |-> blueprints,
                                      config |-> config]]
    /\ rendered = NoRenderCall

\* _app_context_stack.push(ctx) / pop(), seen through .top
PushAppContext ==
    /\ rendered.op = "none"
    /\ ~app_context_top.present
    /\ app_context_top' = AppContext
    /\ UNCHANGED <<jinja_loader, blueprints, config, request_context_top,
                   last, rendered>>

PopAppContext ==
    /\ rendered.op = "none"
    /\ app_context_top.present
    /\ app_context_top' = NoContext
    /\ UNCHANGED <<jinja_loader, blueprints, config, request_context_top,
                   last, rendered>>

\* _request_context_stack.push(ctx) / pop(), seen through .top
PushRequestContext ==
    /\ rendered.op = "none"
    /\ ~request_context_top.present
    /\ request_context_top' = RequestContext
    /\ UNCHANGED <<jinja_loader, blueprints, config, app_context_top,
                   last, rendered>>

PopRequestContext ==
    /\ rendered.op = "none"
    /\ request_context_top.present
    /\ request_context_top' = NoContext
    /\ UNCHANGED <<jinja_loader, blueprints, config, app_context_top,
                   last, rendered>>

\* A call of _default_template_context_processor()
ContextProcessor ==
    /\ rendered.op = "none"
    /\ rendered' = [NoRenderCall EXCEPT
          !.op = "context_processor",
          !.result = Returned(NoneRv,
              _default_template_context_processor(app_context_top,
                                                  request_context_top),
              <<>>)]
    /\ UNCHANGED <<jinja_loader, blueprints, config, app_context_top,
                   request_context_top, last>>

\* A call of render_template(template_name_or_deck, **context)
RenderTemplate ==
    /\ rendered.op = "none"
    /\ app_context_top.present
    /\ \E arg \in TemplateArgs, kwargs \in CallerContexts, b \in Behaviours :
          rendered' = [op |-> "render_template", arg |-> arg,
                       kwargs |-> kwargs, behaviour |-> b,
                       result |-> render_template(App, arg, kwargs, b)]
    /\ UNCHANGED <<jinja_loader, blueprints, config, app_context_top,
                   request_context_top, last>>

\* A call of render_template_string(source, **context)
RenderTemplateString ==
    /\ rendered.op = "none"
    /\ app_context_top.present
    /\ \E kwargs \in CallerContexts, b \in Behaviours :
          rendered' = [op |-> "render_template_string",
                       arg |-> [is_deck |-> FALSE, names |-> <<"{{ title }}">>],
                       kwargs |-> kwargs, behaviour |-> b,
                       result |-> render_template_string(App, "{{ title }}",
                                                         kwargs, b)]
    /\ UNCHANGED <<jinja_loader, blueprints, config, app_context_top,
                   request_context_top, last>>

\* The call is over: its result or error has reached the caller.
Complete ==
    /\ rendered.op # "none"
    /\ rendered' = NoRenderCall
    /\ UNCHANGED <<jinja_loader, blueprints, config, app_context_top,
                   request_context_top, last>>

RenderNext ==
    \/ PushAppContext
    \/ PopAppContext
    \/ PushRequestContext
    \/ PopRequestContext
    \/ ContextProcessor
    \/ RenderTemplate
    \/ RenderTemplateString
    \/ Complete

RenderSpec == RenderInit /\ [][RenderNext]_vars


\* ============================================================== claims
\* What the documentation says of the candidates, stated without the
\* loops: position 1 is the application, position i + 1 blueprint i.
ExpectedCandidates(a) ==
    LET all == [i \in 1..(Len(a.blueprints) + 1) |->
                   IF i = 1
                   THEN [srcobj |-> AppObj, loader |-> a.jinja_loader]
                   ELSE [srcobj |-> BlueprintObj(i - 1),
                         loader |-> a.blueprints[i - 1].jinja_loader]]
        Present(c) == c.loader.present
    IN  SelectSeq(all, Present)

\* The folders that hold the template: 0 the application's, i blueprint i's.
Holders(a, template) ==
    {f \in 0..Len(a.blueprints) :
        IF f = 0
        THEN a.jinja_loader.present /\ template \in a.jinja_loader.templates
        ELSE /\ a.blueprints[f].jinja_loader.present
             /\ template \in a.blueprints[f].jinja_loader.templates}

SetMin(S) == CHOOSE m \in S : \A n \in S : m <= n

ExpectedRv(a, template) ==
    IF Holders(a, template) = {}
    THEN TemplateNotFound(template)
    ELSE Source(SetMin(Holders(a, template)), template)

\* C1: with EXPLAIN_TEMPLATE_LOADING disabled, get_source returns the
\* source of the first candidate that holds the name: the application's
\* if it holds it, else that of the earliest registered blueprint that
\* holds it.
C1_FirstCandidateWins ==
    (last.op = "get_source" /\ ~last.app.config.EXPLAIN_TEMPLATE_LOADING
        /\ Holders(last.app, last.template) # {})
    => last.rv = Source(SetMin(Holders(last.app, last.template)),
                        last.template)

\* C1 witness: blueprints 1 and 2 both hold the name, the application does
\* not, and blueprint 1's source was returned.
C1_Witness ==
    /\ last.op = "get_source"
    /\ ~last.app.config.EXPLAIN_TEMPLATE_LOADING
    /\ Holders(last.app, last.template) = {1, 2}
    /\ last.rv = Source(1, last.template)

\* C2: get_source raises TemplateNotFound exactly when no candidate holds
\* the name, in both modes, and the error carries the requested name.
C2_NotFoundIffNoCandidate ==
    last.op = "get_source"
    => /\ last.rv.kind \in {"source", "TemplateNotFound"}
       /\ (last.rv.kind = "TemplateNotFound")
              <=> (Holders(last.app, last.template) = {})
       /\ last.rv.kind = "TemplateNotFound"
              => last.rv = TemplateNotFound(last.template)

\* C2 witness: a name held by the second candidate only was found, in the
\* fast mode, after the first candidate failed.
C2_Witness ==
    /\ last.op = "get_source"
    /\ ~last.app.config.EXPLAIN_TEMPLATE_LOADING
    /\ last.app.jinja_loader.present
    /\ Holders(last.app, last.template) = {1}
    /\ last.rv.kind = "source"

\* C2 second witness state: nothing holds the name and the error was raised
\* with no candidate at all.
C2_WitnessNoCandidates ==
    /\ last.op = "get_source"
    /\ ExpectedCandidates(last.app) = <<>>
    /\ last.rv = TemplateNotFound(last.template)

\* C6: in diagnostic mode every candidate is asked exactly once, in
\* candidate order, then the reporter is called exactly once with one
\* attempt per candidate (loader, owner, source or None), and only then
\* does get_source return or raise.
C6_ExplainedAsksEveryCandidate ==
    (last.op = "get_source" /\ last.app.config.EXPLAIN_TEMPLATE_LOADING)
    => LET c == ExpectedCandidates(last.app)
           n == Len(c)
           t == last.template
       IN  /\ Len(last.trace) = n + 1
           /\ \A i \in 1..n : last.trace[i] = CallEvent(c[i].loader)
           /\ last.trace[n + 1].ev = "explain_template_loading_attempts"
           /\ Len(last.trace[n + 1].attempts) = n
           /\ \A i \in 1..n :
                 last.trace[n + 1].attempts[i] =
                     Attempt(c[i].loader, c[i].srcobj,
                             IF t \in c[i].loader.templates
                             THEN Source(c[i].loader.folder, t)
                             ELSE NoneRv)
           /\ Holders(last.app, t) = {}
                 => /\ \A i \in 1..n :
                          last.trace[n + 1].attempts[i].rv = NoneRv
                    /\ last.rv = TemplateNotFound(t)

\* C6 witness: three candidates, the first holds the name, and the two
\* after it were still asked.
C6_Witness ==
    /\ last.op = "get_source"
    /\ last.app.config.EXPLAIN_TEMPLATE_LOADING
    /\ Len(ExpectedCandidates(last.app)) = 3
    /\ 0 \in Holders(last.app, last.template)
    /\ Len(last.trace) = 4

\* C7: the diagnostic mode does not change the outcome: whatever the flag,
\* what get_source produced is what the fast scan and what the explained
\* scan produce for the same application and name.
C7_ExplainedSameOutcome ==
    last.op = "get_source"
    => /\ last.rv = _get_source_fast(last.app, last.template).rv
       /\ last.rv = _get_source_explained(last.app, last.template).rv

\* C7 witness: in diagnostic mode two candidates hold the name and the
\* first one's source came back.
C7_Witness ==
    /\ last.op = "get_source"
    /\ last.app.config.EXPLAIN_TEMPLATE_LOADING
    /\ Cardinality(Holders(last.app, last.template)) >= 2
    /\ last.rv = Source(SetMin(Holders(last.app, last.template)),
                        last.template)

\* C8: the listing holds exactly the names of the application's loader and
\* of every blueprint loader that is not None, each name once.
C8_DeckIsUnionOnce ==
    last.op = "deck_templates"
    => /\ Range(last.listing) =
              {t \in Names : Holders(last.app, t) # {}}
       /\ Len(last.listing) = Cardinality(Range(last.listing))

\* C8 witness: a name held by the application and by a blueprint, listed
\* next to a second name.
C8_Witness ==
    /\ last.op = "deck_templates"
    /\ \E t \in Names : Cardinality(Holders(last.app, t)) >= 2
    /\ Len(last.listing) = 2

\* C10: a loader call changes nothing of the application, and what
\* get_source produces is decided by the application's loader, blueprints
\* and flag as they are at the call: a blueprint registered since the
\* previous lookup is a candidate.
C10_Stateless ==
    [][(last'.serial # last.serial)
        => /\ appvars' = appvars
           /\ last'.app = App'
           /\ last'.op = "get_source"
                 => last'.rv = ExpectedRv(App', last'.template)]_vars

\* C10 witness: the lookup before was made with fewer blueprints, and this
\* one returned the source of a blueprint registered since.
C10_Witness ==
    /\ last.op = "get_source"
    /\ last.before >= 0
    /\ last.before < Len(last.app.blueprints)
    /\ last.rv.kind = "source"
    /\ last.rv.folder > last.before

RenderOps == {"render_template", "render_template_string"}

\* C3: the context that is rendered and sent with both signals holds every
\* keyword variable of the caller with the caller's value, and the
\* injected defaults for the rest.
C3_CallerContextWins ==
    rendered.op \in RenderOps
    => \A i \in 1..Len(rendered.result.events) :
          \A k \in Keys :
             rendered.result.events[i].context[k] =
                 IF rendered.kwargs[k] # Absent
                 THEN rendered.kwargs[k]
                 ELSE _default_template_context_processor(
                          app_context_top, request_context_top)[k]

\* C4: render_template with a list renders the first name of the list that
\* some candidate holds, and raises template-not-found when none is held;
\* with one name it renders that name or raises template-not-found.
C4_FirstResolvableName ==
    rendered.op = "render_template"
    => LET names == rendered.arg.names
           r == rendered.result
           held == {i \in 1..Len(names) : Holders(App, names[i]) # {}}
       IN  IF held = {}
           THEN /\ r.outcome = "raised"
                /\ r.error = "TemplateNotFound"
                /\ r.events = <<>>
           ELSE LET n == names[SetMin(held)]
                IN  /\ r.template = Source(SetMin(Holders(App, n)), n)
                    /\ r.error # "TemplateNotFound"
                    /\ \A i \in 1..Len(r.events) :
                          r.events[i].template = r.template
                    /\ (rendered.behaviour \in
                           [before_raises : {FALSE}, render_raises : {FALSE},
                            after_raises : {FALSE}])
                          => /\ r.outcome = "returned"
                             /\ Len(r.events) = 3

\* C4 witness: the first name of the list is held nowhere, the second is,
\* and the second was rendered.
C4_Witness ==
    /\ rendered.op = "render_template"
    /\ rendered.arg.is_deck
    /\ Len(rendered.arg.names) = 2
    /\ Holders(App, rendered.arg.names[1]) = {}
    /\ rendered.result.outcome = "returned"
    /\ rendered.result.template.name = rendered.arg.names[2]

EventOrder == <<"before_render_template", "render", "template_rendered">>

\* C5: a render call sends before_render_template, renders, then sends
\* template_rendered; both signals carry the application, the resolved
\* template and the context that is rendered; a raising observer or
\* render ends the call there and the error reaches the caller.
C5_RenderBracketed ==
    (rendered.op \in RenderOps /\ rendered.result.template.kind = "source")
    => LET r == rendered.result
           ev == r.events
           b == rendered.behaviour
       IN  /\ Len(ev) \in 1..3
           /\ \A i \in 1..Len(ev) :
                 /\ ev[i].what = EventOrder[i]
                 /\ ev[i].template = r.template
                 /\ ev[i].context = r.context
                 /\ i # 2 => ev[i].sender = app_context_top.app
           /\ b.before_raises => (Len(ev) = 1 /\ r.outcome = "raised")
           /\ (~b.before_raises /\ b.render_raises)
                 => (Len(ev) = 2 /\ r.outcome = "raised")
           /\ (~b.before_raises /\ ~b.render_raises) => Len(ev) = 3
           /\ (r.outcome = "returned")
                 <=> (~b.before_raises /\ ~b.render_raises
                      /\ ~b.after_raises)

\* C5 witness: the render raised after the first signal, and
\* template_rendered was not sent.
C5_Witness ==
    /\ rendered.op \in RenderOps
    /\ rendered.behaviour.render_raises
    /\ Len(rendered.result.events) = 2
    /\ rendered.result.outcome = "raised"
    /\ rendered.result.error = "render"

\* C9: the default context processor injects g exactly when an application
\* context is on top, request and session exactly when a request context
\* is on top, and nothing else.
C9_InjectedIffActive ==
    rendered.op = "context_processor"
    => LET rv == rendered.result.context
       IN  /\ (rv["g"] # Absent) <=> app_context_top.present
           /\ (rv["request"] # Absent) <=> request_context_top.present
           /\ (rv["session"] # Absent) <=> request_context_top.present
           /\ rv["title"] = Absent
           /\ app_context_top.present => rv["g"] = app_context_top.g
           /\ request_context_top.present
                 => /\ rv["request"] = request_context_top.request
                    /\ rv["session"] = request_context_top.session

\* C9 witness: only an application context is active and only g was
\* injected.
C9_Witness ==
    /\ rendered.op = "context_processor"
    /\ app_context_top.present
    /\ ~request_context_top.present
    /\ rendered.result.context["g"] = "the_g"
    /\ rendered.result.context["request"] = Absent

====
